---- MODULE Spec2Model ----
(***************************************************************************)
(* Model of the media streaming handler of celebrity-api                   *)
(* (handlers/stream: handleFileStream, handleRangeRequest) together with   *)
(* the three services it talks to: the R2 bucket, the KV namespace and the *)
(* Workers cache (caches.default).                                         *)
(*                                                                         *)
(* Strings the code inspects (file keys, content types, Range headers) are *)
(* sequences of one-character strings, so that includes, startsWith, the   *)
(* Range regular expression and parseInt are computed and not assumed.     *)
(* A JavaScript number is <<n>>, and NaN is <<>>.  An optional value is    *)
(* <<>> (null / undefined) or <<v>>.                                       *)
(***************************************************************************)
EXTENDS Integers, Sequences, FiniteSets, TLC

\* ------------------------------------------------------------------ bounds

\* numbers written in Range headers are 0..MaxOff (plus the 512 KiB boundary)
MaxOff == 2
\* sizes of the objects in the bucket are 0..MaxSize (plus the class ceilings)
MaxSize == 3
\* background cache writes that may be outstanding at once
MaxPending == 2

\* ------------------------------------------------------- JavaScript values

NaN == <<>>

Num(n) == <<n>>

IsNaN(x) == x = NaN

\* a >= b, a < b, a <= b, a === b on numbers: every comparison with NaN is false
JsGE(a, b) == ~IsNaN(a) /\ ~IsNaN(b) /\ a[1] >= b[1]

JsLT(a, b) == ~IsNaN(a) /\ ~IsNaN(b) /\ a[1] < b[1]

JsLE(a, b) == ~IsNaN(a) /\ ~IsNaN(b) /\ a[1] <= b[1]

JsEq(a, b) == ~IsNaN(a) /\ ~IsNaN(b) /\ a[1] = b[1]

\* a + b, a - b: NaN is contagious
JsAdd(a, b) == IF IsNaN(a) \/ IsNaN(b) THEN NaN ELSE Num(a[1] + b[1])

JsSub(a, b) == IF IsNaN(a) \/ IsNaN(b) THEN NaN ELSE Num(a[1] - b[1])

\* Math.min, Math.max: NaN if either argument is NaN
MathMin(a, b) == IF IsNaN(a) \/ IsNaN(b) THEN NaN ELSE IF a[1] <= b[1] THEN a ELSE b

MathMax(a, b) == IF IsNaN(a) \/ IsNaN(b) THEN NaN ELSE IF a[1] >= b[1] THEN a ELSE b

\* ---------------------------------------------------------------- strings

DigitChars == <<"0", "1", "2", "3", "4", "5", "6", "7", "8", "9">>

IsDigit(c) == \E i \in 1..10 : DigitChars[i] = c

DigitVal(c) == (CHOOSE i \in 1..10 : DigitChars[i] = c) - 1

\* String(prefix).startsWith: s begins with p
startsWith(s, p) == Len(s) >= Len(p) /\ SubSeq(s, 1, Len(p)) = p

\* s.includes(p)
includes(s, p) == \E i \in 1..(Len(s) - Len(p) + 1) : SubSeq(s, i, i + Len(p) - 1) = p

\* Number.prototype.toString of a natural number
RECURSIVE toString(_)
toString(n) == IF n < 10 THEN <<DigitChars[n + 1]>>
               ELSE toString(n \div 10) \o <<DigitChars[(n % 10) + 1]>>

\* parseInt(s, 10) of a string of digits (the regular expression's groups hold
\* digits only): NaN for the empty string
RECURSIVE digitsValue(_)
digitsValue(s) == IF s = <<>> THEN 0
                  ELSE 10 * digitsValue(SubSeq(s, 1, Len(s) - 1)) + DigitVal(s[Len(s)])

parseInt(s) == IF s = <<>> THEN NaN ELSE Num(digitsValue(s))

\* the longest run of digits of s that starts at position i
RECURSIVE digitRun(_, _)
digitRun(s, i) == IF i <= Len(s) /\ IsDigit(s[i]) THEN <<s[i]>> \o digitRun(s, i + 1)
                  ELSE <<>>

BytesEq == <<"b", "y", "t", "e", "s", "=">>

\* whether /bytes=(\d*)-(\d*)/ matches s at position i: "bytes=", a run of
\* digits, then "-".  \d* is greedy and a shorter run is followed by a digit,
\* never by "-", so only the longest run can match.
rangeRegexAt(s, i) ==
    /\ i + 5 <= Len(s)
    /\ SubSeq(s, i, i + 5) = BytesEq
    /\ LET g1 == digitRun(s, i + 6)
       IN  i + 6 + Len(g1) <= Len(s) /\ s[i + 6 + Len(g1)] = "-"

\* rangeHeader.match(/bytes=(\d*)-(\d*)/): <<>> for null, else <<[g1, g2]>>,
\* the groups of the leftmost match
rangeRegexMatch(s) ==
    LET hits == {i \in 1..Len(s) : rangeRegexAt(s, i)}
    IN  IF hits = {} THEN <<>>
        ELSE LET i  == CHOOSE j \in hits : \A h \in hits : j <= h
                 g1 == digitRun(s, i + 6)
                 g2 == digitRun(s, i + 6 + Len(g1) + 1)
             IN  <<[g1 |-> g1, g2 |-> g2]>>

\* -------------------------------------------------------------- constants

\* CACHE_CONFIGS
CACHE_CONFIGS ==
    [image |-> [browserCache |-> "public, max-age=31536000, immutable",
                kvTTL |-> 31536000, shouldCacheInKV |-> TRUE,
                maxKVSize |-> 5 * 1024 * 1024],
     video |-> [browserCache |-> "public, max-age=31536000, immutable",
                kvTTL |-> 604800, shouldCacheInKV |-> FALSE,
                maxKVSize |-> 0],
     audio |-> [browserCache |-> "public, max-age=31536000, immutable",
                kvTTL |-> 2592000, shouldCacheInKV |-> TRUE,
                maxKVSize |-> 10 * 1024 * 1024]]

VIDEO_CHUNK_SIZE == 2 * 1024 * 1024

AUDIO_CHUNK_SIZE == 512 * 1024

DEFAULT_CHUNK_SIZE == 1 * 1024 * 1024

\* the largest first chunk that is written to the cache (512 * 1024)
FIRST_CHUNK_MAX == 512 * 1024

ImagePrefix == <<"i", "m", "a", "g", "e", "/">>

VideoPrefix == <<"v", "i", "d", "e", "o", "/">>

AudioPrefix == <<"a", "u", "d", "i", "o", "/">>

OctetStream == <<"a", "p", "p", "l", "i", "c", "a", "t", "i", "o", "n", "/", "o", "c", "t", "e", "t", "-", "s", "t", "r", "e", "a", "m">>

DotDot == <<".", ".">>

\* ------------------------------------------------------ the model's inputs

\* content types of the objects in the bucket
CtImage == <<"i", "m", "a", "g", "e", "/", "p", "n", "g">>

CtVideo == <<"v", "i", "d", "e", "o", "/", "m", "p", "4">>

CtAudio == <<"a", "u", "d", "i", "o", "/", "o", "g", "g">>

CtText == <<"t", "e", "x", "t", "/", "p", "l", "a", "i", "n">>

\* begins with "image" but not with "image/"
CtImages == <<"i", "m", "a", "g", "e", "s">>

ContentTypes == {CtImage, CtVideo, CtAudio, CtText, CtImages}

\* file keys: two plain keys, two keys with "..", and the empty key
KeyA == <<"m", "/", "a", ".", "p", "n", "g">>

KeyB == <<"m", "/", "b">>

KeyUp == <<"m", "/", ".", ".", "/", "a">>

KeyDots == <<"a", ".", ".", "b">>

KeyEmpty == <<>>

FileKeys == {KeyA, KeyB, KeyUp, KeyDots, KeyEmpty}

\* Range headers
Dash == <<"-">>

RangeAB(a, b) == BytesEq \o toString(a) \o Dash \o toString(b)

RangeFrom(a) == BytesEq \o toString(a) \o Dash

RangeSuffix(n) == BytesEq \o Dash \o toString(n)

RangeDashOnly == BytesEq \o Dash

RangeOtherUnit == <<"i", "t", "e", "m", "s", "=", "0", "-", "1">>

\* the numbers 0..MaxOff in every position, and a first chunk that is one byte
\* too long to be cached
RangeHeaderValues ==
    {RangeAB(a, b) : a \in 0..MaxOff, b \in 0..MaxOff}
    \cup {RangeAB(0, FIRST_CHUNK_MAX)}
    \cup {RangeFrom(a) : a \in 0..MaxOff}
    \cup {RangeSuffix(n) : n \in 0..MaxOff}
    \cup {RangeDashOnly, RangeOtherUnit}

\* request.headers.get('range') of the requests of the range path
RangedHeaders == {<<h>> : h \in RangeHeaderValues}

\* request.headers.get('range') of the other requests: <<>> when the header is
\* absent, << <<>> >> when it is present and empty
WholeHeaders == {<<>>, <<RangeAB(0, 1)>>, << <<>> >>}

\* ------------------------------------------------------------------ state

VARIABLES
    env,        \* the bindings: [bucket |-> is env.bucket set, KV |-> is env.KV set]
    bucket,     \* R2: file key -> <<>> or <<[contentType, size, data]>>
    edge,       \* caches.default: cache key -> the Response stored under it
    kv,         \* the KV namespace: KV key -> the bytes stored under it
    pending,    \* cache writes started in the background and not yet settled
    pc,         \* "idle", or "responded" while a response is on its way out
    req,        \* the request being answered
    resp,       \* what handleFileStream returned (or that it threw)
    ops,        \* the bucket / KV / cache calls this request made
    rangeRead,  \* the range handed to bucket.get by this request, if any
    failed,     \* the calls that failed during this request
    pre,        \* what the caches held for the key when the request arrived
    prev        \* the previous request, when it was a GET without Range header that
                \* was served: its key, its response, and whether the caches were empty

vars == <<env, bucket, edge, kv, pending, pc, req, resp, ops, rangeRead, failed, pre, prev>>

\* -------------------------------------------------------------- responses

\* a stretch of an object's bytes: the whole body, or what a range read gives
Bytes(data, off, len) == [data |-> data, off |-> off, len |-> len]

BlankResponse ==
    [kind |-> "none", status |-> 0, xcache |-> "", contentType |-> <<>>,
     contentLength |-> NaN, contentRange |-> <<>>, cacheControl |-> "",
     body |-> <<>>, error |-> "", downloadUrl |-> <<>>]

\* jsonResponse(body, status)
jsonResponse(error, status) ==
    [BlankResponse EXCEPT !.kind = "json", !.status = status, !.error = error]

\* new Response(text, { status })
textResponse(text, status) ==
    [BlankResponse EXCEPT !.kind = "text", !.status = status, !.error = text]

\* the rejected promise of a handler that threw
Thrown == [BlankResponse EXCEPT !.kind = "thrown"]

\* buildResponseHeaders, as the headers of a 200 response without body yet
buildResponseHeaders(contentType, contentLength, cacheControl, cacheStatus) ==
    [BlankResponse EXCEPT !.kind = "media", !.status = 200,
                          !.contentType = contentType,
                          !.contentLength = contentLength,
                          !.cacheControl = cacheControl,
                          !.xcache = cacheStatus]

\* buildRangeHeaders with Content-Length end - start, one byte short
buildRangeHeaders_ShortLength(contentType, start, end, total, cacheControl) ==
    [BlankResponse EXCEPT !.kind = "media", !.status = 206,
                          !.contentType = contentType,
                          !.contentRange = <<[unsatisfied |-> FALSE, start |-> start,
                                              end |-> end, total |-> total]>>,
                          !.contentLength = JsSub(end, start),
                          !.cacheControl = cacheControl]

\* buildRangeHeaders, as the headers of a 206 response without body yet
buildRangeHeaders(contentType, start, end, total, cacheControl) ==
    [BlankResponse EXCEPT !.kind = "media", !.status = 206,
                          !.contentType = contentType,
                          !.contentRange = <<[unsatisfied |-> FALSE, start |-> start,
                                              end |-> end, total |-> total]>>,
                          !.contentLength = JsAdd(JsSub(end, start), Num(1)),
                          !.cacheControl = cacheControl]

\* the 416 response: 'Content-Range': `bytes */${totalSize}`
rangeNotSatisfiable(totalSize) ==
    [BlankResponse EXCEPT !.kind = "empty", !.status = 416,
                          !.contentRange = <<[unsatisfied |-> TRUE, start |-> NaN,
                                              end |-> NaN, total |-> totalSize]>>]

\* ------------------------------------------------------------------- keys

\* getCacheKey: https://cache.local/celebrity/${fileKey}
getCacheKey(fileKey) == <<"https://cache.local/celebrity/", fileKey, <<>>>>

\* getRangeCacheKey without the end of the chunk in the key
getRangeCacheKey_NoEnd(fileKey, end) == <<"https://cache.local/range/", fileKey, Num(0)>>

\* the first-chunk key: https://cache.local/range/${fileKey}?chunk=0-${end}
getRangeCacheKey(fileKey, end) == <<"https://cache.local/range/", fileKey, end>>

\* getKVKey: celebrity:media:${fileKey}
getKVKey(fileKey) == <<"celebrity:media:", fileKey, <<>>>>

\* ----------------------------------------------------------------- policy

\* getCacheConfig
getCacheConfig(contentType) ==
    IF startsWith(contentType, ImagePrefix) THEN CACHE_CONFIGS.image
    ELSE IF startsWith(contentType, VideoPrefix) THEN CACHE_CONFIGS.video
    ELSE IF startsWith(contentType, AudioPrefix) THEN CACHE_CONFIGS.audio
    ELSE CACHE_CONFIGS.image

\* keyInvalid without the test for "..": only the empty key is refused
keyInvalid_EmptyOnly(fileKey) == fileKey = <<>>

\* !fileKey || fileKey.includes('..')
keyInvalid(fileKey) == fileKey = <<>> \/ includes(fileKey, DotDot)

\* notMedia with the prefixes compared without their slash
notMedia_NoSlash(contentType) ==
    /\ ~startsWith(contentType, SubSeq(ImagePrefix, 1, 5))
    /\ ~startsWith(contentType, SubSeq(VideoPrefix, 1, 5))
    /\ ~startsWith(contentType, SubSeq(AudioPrefix, 1, 5))

\* !isImage && !isVideo && !isAudio
notMedia(contentType) ==
    /\ ~startsWith(contentType, ImagePrefix)
    /\ ~startsWith(contentType, VideoPrefix)
    /\ ~startsWith(contentType, AudioPrefix)

\* rangeHeader && (isVideo || isAudio)
takesRangePath(range, contentType) ==
    /\ range # <<>> /\ range[1] # <<>>
    /\ (startsWith(contentType, VideoPrefix) \/ startsWith(contentType, AudioPrefix))

\* consultsKV with the ceiling itself left out
consultsKV_BelowCeiling(config, fileSize, hasKV) ==
    config.shouldCacheInKV /\ fileSize < config.maxKVSize /\ hasKV

\* config.shouldCacheInKV && fileSize <= config.maxKVSize && env.KV
consultsKV(config, fileSize, hasKV) ==
    config.shouldCacheInKV /\ fileSize <= config.maxKVSize /\ hasKV

\* buffers without the ceiling: every object is buffered and cached
buffers_NoCeiling(config, fileSize) == TRUE

\* fileSize <= config.maxKVSize: buffer and cache, else stream
buffers(config, fileSize) == fileSize <= config.maxKVSize

\* ------------------------------------------------------------ range maths

\* chunkSizeOf with the default chunk size for every content type
chunkSizeOf_Default(contentType) == DEFAULT_CHUNK_SIZE

\* the chunk size of a content type
chunkSizeOf(contentType) ==
    IF startsWith(contentType, VideoPrefix) THEN VIDEO_CHUNK_SIZE
    ELSE IF startsWith(contentType, AudioPrefix) THEN AUDIO_CHUNK_SIZE
    ELSE DEFAULT_CHUNK_SIZE

\* resolveRange without Math.max in the suffix form
resolveRange_NoClamp(m, totalSize, chunkSize) ==
    IF m.g1 = <<>> /\ m.g2 # <<>>
    THEN [start |-> JsSub(Num(totalSize), parseInt(m.g2)),
          end   |-> Num(totalSize - 1)]
    ELSE LET start == parseInt(m.g1)
         IN  [start |-> start,
              end   |-> IF m.g2 # <<>> THEN parseInt(m.g2)
                        ELSE MathMin(JsAdd(start, Num(chunkSize - 1)),
                                     Num(totalSize - 1))]

\* start and end from the groups of the regular expression
resolveRange(m, totalSize, chunkSize) ==
    IF m.g1 = <<>> /\ m.g2 # <<>>
    THEN [start |-> MathMax(JsSub(Num(totalSize), parseInt(m.g2)), Num(0)),
          end   |-> Num(totalSize - 1)]
    ELSE LET start == parseInt(m.g1)
         IN  [start |-> start,
              end   |-> IF m.g2 # <<>> THEN parseInt(m.g2)
                        ELSE MathMin(JsAdd(start, Num(chunkSize - 1)),
                                     Num(totalSize - 1))]

\* rangeRejected without the test end < start
rangeRejected_NoEndCheck(start, end, totalSize) ==
    JsGE(start, Num(totalSize)) \/ JsLT(start, Num(0))

\* start >= totalSize || start < 0 || end < start
rangeRejected(start, end, totalSize) ==
    JsGE(start, Num(totalSize)) \/ JsLT(start, Num(0)) \/ JsLT(end, start)

\* cachesChunk without the limit of 512 KiB
cachesChunk_NoLimit(isFirstChunk, start, end) == isFirstChunk

\* rangeCacheKey && (end - start + 1) <= 512 * 1024
cachesChunk(isFirstChunk, start, end) ==
    isFirstChunk /\ JsLE(JsAdd(JsSub(end, start), Num(1)), Num(FIRST_CHUNK_MAX))

\* --------------------------------------------------------------- handlers

\* What one run of a handler amounts to: the response (or Thrown), the calls
\* it made, the range it read, the background cache writes it started, and the
\* calls that failed.
Out(r, o, rr, w, f) == [resp |-> r, ops |-> o, rangeRead |-> rr, writes |-> w, failed |-> f]

\* EdgePut of the response itself, not of a clone: its body is used up
EdgePut_NoClone(key, response) ==
    [tier |-> "edge", key |-> key, value |-> [response EXCEPT !.body = <<>>], ttl |-> 0]

\* a background cache write: caches.default.put or env.KV.put
EdgePut(key, response) == [tier |-> "edge", key |-> key, value |-> response, ttl |-> 0]

\* KVPut that stores an empty buffer
KVPut_Empty(key, bytes, ttl) ==
    [tier |-> "kv", key |-> key,
     value |-> [BlankResponse EXCEPT !.kind = "bytes",
                                     !.body = <<[bytes EXCEPT !.len = Num(0)]>>],
     ttl |-> ttl]

KVPut(key, bytes, ttl) ==
    [tier |-> "kv", key |-> key,
     value |-> [BlankResponse EXCEPT !.kind = "bytes", !.body = <<bytes>>], ttl |-> ttl]

\* the catch block of handleFileStream
caught(o, f) == Out(jsonResponse("Internal server error", 500), o, <<>>, {}, f)

\* handleRangeRequest.  faults names the calls that fail in this run.
handleRangeRequest(fileKey, rangeHeader, contentType, totalSize, cacheControl, faults) ==
    LET match == rangeRegexMatch(rangeHeader)
    IN  IF match = <<>>
        THEN Out(textResponse("Invalid range", 400), {}, <<>>, {}, {})
        ELSE
        LET r      == resolveRange(match[1], totalSize, chunkSizeOf(contentType))
            start  == r.start
            end    == r.end
            length == JsAdd(JsSub(end, start), Num(1))
            isFirstChunk  == JsEq(start, Num(0))
            rangeCacheKey == getRangeCacheKey(fileKey, end)
            o1 == IF isFirstChunk THEN {"chunk.match"} ELSE {}
            o2 == o1 \cup {"bucket.getRange"}
            rr == <<[offset |-> start, length |-> length]>>
            response ==
                [buildRangeHeaders(contentType, start, end, totalSize, cacheControl)
                    EXCEPT !.body = <<Bytes(bucket[fileKey][1].data, start, length)>>]
        IN  IF rangeRejected(start, end, totalSize)
            THEN Out(rangeNotSatisfiable(totalSize), {}, <<>>, {}, {})
            ELSE IF isFirstChunk /\ "chunk.match:throw" \in faults
            THEN Out(Thrown, o1, <<>>, {}, {"chunk.match:throw"})
            ELSE IF isFirstChunk /\ rangeCacheKey \in DOMAIN edge
            THEN Out(edge[rangeCacheKey], o1, <<>>, {}, {})
            ELSE IF "bucket.getRange:throw" \in faults
            THEN Out(Thrown, o2, rr, {}, {"bucket.getRange:throw"})
            ELSE IF "bucket.getRange:null" \in faults
            THEN Out(textResponse("Failed to get range", 500), o2, rr, {},
                     {"bucket.getRange:null"})
            ELSE Out(response, o2, rr,
                     IF cachesChunk(isFirstChunk, start, end)
                     THEN {EdgePut(rangeCacheKey, response)} ELSE {},
                     {})

\* serveWhole with a failing KV read left to the catch block of handleFileStream
serveWhole_KVThrowFatal(fileKey, contentType, fileSize, config, faults) ==
    LET cacheKey == getCacheKey(fileKey)
        kvKey    == getKVKey(fileKey)
        useKV    == consultsKV(config, fileSize, env.KV)
        kvThrows == useKV /\ "kv.get:throw" \in faults
        o1 == {"edge.match", "bucket.head"} \cup (IF useKV THEN {"kv.get"} ELSE {})
        f1 == IF kvThrows THEN {"kv.get:throw"} ELSE {}
        o2 == o1 \cup {"bucket.get"}
        arrayBuffer == Bytes(bucket[fileKey][1].data, Num(0), Num(bucket[fileKey][1].size))
        headers  == buildResponseHeaders(contentType, Num(fileSize), config.browserCache, "MISS")
        response == [headers EXCEPT !.body = <<arrayBuffer>>]
    IN  IF kvThrows
        THEN caught(o1, f1)
        ELSE IF useKV /\ kvKey \in DOMAIN kv
        THEN LET kvData == kv[kvKey]
                 hit == [buildResponseHeaders(contentType, kvData.len,
                                              config.browserCache, "HIT-KV")
                            EXCEPT !.body = <<kvData>>]
             IN  Out(hit, o1, <<>>, {EdgePut(cacheKey, hit)}, {})
        ELSE IF "bucket.get:throw" \in faults
        THEN caught(o2, f1 \cup {"bucket.get:throw"})
        ELSE IF "bucket.get:null" \in faults
        THEN Out(jsonResponse("File not found", 404), o2, <<>>, {},
                 f1 \cup {"bucket.get:null"})
        ELSE IF buffers(config, fileSize)
        THEN IF "arrayBuffer:throw" \in faults
             THEN caught(o2, f1 \cup {"arrayBuffer:throw"})
             ELSE Out(response, o2, <<>>,
                      {EdgePut(cacheKey, response)}
                      \cup (IF config.shouldCacheInKV /\ env.KV
                            THEN {KVPut(kvKey, arrayBuffer, config.kvTTL)} ELSE {}),
                      f1)
        ELSE Out(response, o2, <<>>, {}, f1)

\* serveWhole with no edge-cache write after a KV hit
serveWhole_NoReseed(fileKey, contentType, fileSize, config, faults) ==
    LET cacheKey == getCacheKey(fileKey)
        kvKey    == getKVKey(fileKey)
        useKV    == consultsKV(config, fileSize, env.KV)
        kvThrows == useKV /\ "kv.get:throw" \in faults
        o1 == {"edge.match", "bucket.head"} \cup (IF useKV THEN {"kv.get"} ELSE {})
        f1 == IF kvThrows THEN {"kv.get:throw"} ELSE {}
        o2 == o1 \cup {"bucket.get"}
        arrayBuffer == Bytes(bucket[fileKey][1].data, Num(0), Num(bucket[fileKey][1].size))
        headers  == buildResponseHeaders(contentType, Num(fileSize), config.browserCache, "MISS")
        response == [headers EXCEPT !.body = <<arrayBuffer>>]
    IN  IF useKV /\ ~kvThrows /\ kvKey \in DOMAIN kv
        THEN LET kvData == kv[kvKey]
                 hit == [buildResponseHeaders(contentType, kvData.len,
                                              config.browserCache, "HIT-KV")
                            EXCEPT !.body = <<kvData>>]
             IN  Out(hit, o1, <<>>, {}, {})
        ELSE IF "bucket.get:throw" \in faults
        THEN caught(o2, f1 \cup {"bucket.get:throw"})
        ELSE IF "bucket.get:null" \in faults
        THEN Out(jsonResponse("File not found", 404), o2, <<>>, {},
                 f1 \cup {"bucket.get:null"})
        ELSE IF buffers(config, fileSize)
        THEN IF "arrayBuffer:throw" \in faults
             THEN caught(o2, f1 \cup {"arrayBuffer:throw"})
             ELSE Out(response, o2, <<>>,
                      {EdgePut(cacheKey, response)}
                      \cup (IF config.shouldCacheInKV /\ env.KV
                            THEN {KVPut(kvKey, arrayBuffer, config.kvTTL)} ELSE {}),
                      f1)
        ELSE Out(response, o2, <<>>, {}, f1)

\* steps 4 to 6 of handleFileStream: the KV tier, then the bucket
serveWhole(fileKey, contentType, fileSize, config, faults) ==
    LET cacheKey == getCacheKey(fileKey)
        kvKey    == getKVKey(fileKey)
        useKV    == consultsKV(config, fileSize, env.KV)
        kvThrows == useKV /\ "kv.get:throw" \in faults
        o1 == {"edge.match", "bucket.head"} \cup (IF useKV THEN {"kv.get"} ELSE {})
        f1 == IF kvThrows THEN {"kv.get:throw"} ELSE {}
        o2 == o1 \cup {"bucket.get"}
        arrayBuffer == Bytes(bucket[fileKey][1].data, Num(0), Num(bucket[fileKey][1].size))
        headers  == buildResponseHeaders(contentType, Num(fileSize), config.browserCache, "MISS")
        response == [headers EXCEPT !.body = <<arrayBuffer>>]
    IN  IF useKV /\ ~kvThrows /\ kvKey \in DOMAIN kv
        THEN LET kvData == kv[kvKey]
                 hit == [buildResponseHeaders(contentType, kvData.len,
                                              config.browserCache, "HIT-KV")
                            EXCEPT !.body = <<kvData>>]
             IN  Out(hit, o1, <<>>, {EdgePut(cacheKey, hit)}, {})
        ELSE IF "bucket.get:throw" \in faults
        THEN caught(o2, f1 \cup {"bucket.get:throw"})
        ELSE IF "bucket.get:null" \in faults
        THEN Out(jsonResponse("File not found", 404), o2, <<>>, {},
                 f1 \cup {"bucket.get:null"})
        ELSE IF buffers(config, fileSize)
        THEN IF "arrayBuffer:throw" \in faults
             THEN caught(o2, f1 \cup {"arrayBuffer:throw"})
             ELSE Out(response, o2, <<>>,
                      {EdgePut(cacheKey, response)}
                      \cup (IF config.shouldCacheInKV /\ env.KV
                            THEN {KVPut(kvKey, arrayBuffer, config.kvTTL)} ELSE {}),
                      f1)
        ELSE Out(response, o2, <<>>, {}, f1)

\* handleFileStream.  A failure inside the try block ends in the catch block;
\* the promise of handleRangeRequest is returned without await, so its
\* rejection is the rejection of handleFileStream.
handleFileStream(request, faults) ==
    LET fileKey  == request.fileKey
        hasRange == request.range # <<>> /\ request.range[1] # <<>>
        cacheKey == getCacheKey(fileKey)
    IN  IF keyInvalid(fileKey)
        THEN Out(jsonResponse("Invalid file key", 400), {}, <<>>, {}, {})
        ELSE IF ~env.bucket
        THEN Out(jsonResponse("R2 bucket not configured", 500), {}, <<>>, {}, {})
        ELSE IF "edge.match:throw" \in faults
        THEN caught({"edge.match"}, {"edge.match:throw"})
        ELSE IF cacheKey \in DOMAIN edge /\ ~hasRange
        THEN Out([edge[cacheKey] EXCEPT !.xcache = "HIT-WORKERS"],
                 {"edge.match"}, <<>>, {}, {})
        ELSE IF "bucket.head:throw" \in faults
        THEN caught({"edge.match", "bucket.head"}, {"bucket.head:throw"})
        ELSE IF bucket[fileKey] = <<>>
        THEN Out(jsonResponse("File not found", 404), {"edge.match", "bucket.head"},
                 <<>>, {}, {})
        ELSE
        LET objectInfo  == bucket[fileKey][1]
            contentType == IF objectInfo.contentType # <<>> /\ objectInfo.contentType[1] # <<>>
                           THEN objectInfo.contentType[1] ELSE OctetStream
            fileSize    == objectInfo.size
            config      == getCacheConfig(contentType)
        IN  IF notMedia(contentType)
            THEN Out([jsonResponse("This endpoint is for media files only", 400)
                         EXCEPT !.downloadUrl = <<"/download/", fileKey>>],
                     {"edge.match", "bucket.head"}, <<>>, {}, {})
            ELSE IF takesRangePath(request.range, contentType)
            THEN LET o == handleRangeRequest(fileKey, request.range[1], contentType,
                                             fileSize, config.browserCache, faults)
                 IN  [o EXCEPT !.ops = @ \cup {"edge.match", "bucket.head"}]
            ELSE serveWhole(fileKey, contentType, fileSize, config, faults)

\* ------------------------------------------------------------ environment

\* the calls of one request that may fail: a call that throws (its promise
\* rejects), or a bucket.get that resolves to null
Faults ==
    {"none", "edge.match:throw", "bucket.head:throw", "bucket.get:throw",
     "bucket.get:null", "arrayBuffer:throw", "chunk.match:throw",
     "bucket.getRange:throw", "bucket.getRange:null"}

\* those of them that a request of the range path can meet
RangeFaults ==
    {"none", "edge.match:throw", "bucket.head:throw", "chunk.match:throw",
     "bucket.getRange:throw", "bucket.getRange:null"}

Object(contentType, size, data) == [contentType |-> contentType, size |-> size, data |-> data]

\* the sizes an object of a content type may have: small ones, and the two
\* sizes around the ceiling of its class
ObjectSizes(ct) ==
    IF notMedia(ct) THEN {0, MaxSize}
    ELSE (0..MaxSize) \cup {getCacheConfig(ct).maxKVSize, getCacheConfig(ct).maxKVSize + 1}

\* what the bucket may hold under KeyA: an object of any content type (or of
\* none) and size.  KeyB is the key of no object.
ObjectsA ==
    UNION {{<<Object(<<ct>>, sz, "A")>> : sz \in ObjectSizes(ct)} : ct \in ContentTypes}
    \cup {<<Object(<<>>, 1, "A")>>}

\* the bucket is not written by this program: it holds what it held at the start
Buckets ==
    {[k \in FileKeys |->
        IF k = KeyA THEN a
        ELSE IF k = KeyDots THEN <<Object(<<CtImage>>, 1, "D")>>
        ELSE <<>>] : a \in ObjectsA}

NoRequest == [fileKey |-> <<>>, range |-> <<>>]

NoPre == [edge |-> FALSE, kv |-> FALSE, cold |-> FALSE]

Init ==
    /\ env \in [bucket : BOOLEAN, KV : BOOLEAN]
    /\ bucket \in Buckets
    /\ edge = <<>>
    /\ kv = <<>>
    /\ pending = {}
    /\ pc = "idle"
    /\ req = NoRequest
    /\ resp = BlankResponse
    /\ ops = {}
    /\ rangeRead = <<>>
    /\ failed = {}
    /\ pre = NoPre
    /\ prev = <<>>

\* ---------------------------------------------------------------- actions

\* RequestOf with the response held back until the cache writes are done
RequestOf_AwaitsWrites(keys, headers, faults, kvFaults) ==
    /\ pc = "idle"
    /\ \E k \in keys, r \in headers, f \in faults, kvf \in kvFaults :
         LET request == [fileKey |-> k, range |-> r]
             out == handleFileStream(request,
                                     {f} \cup (IF kvf THEN {"kv.get:throw"} ELSE {}))
             edgeW == {w \in out.writes : w.tier = "edge"}
             kvW   == {w \in out.writes : w.tier = "kv"}
         IN  /\ req' = request
             /\ resp' = out.resp
             /\ ops' = out.ops \cup {IF w.tier = "kv" THEN "kv.put"
                                     ELSE IF w.key[3] = <<>> THEN "edge.put"
                                     ELSE "chunk.put" : w \in out.writes}
             /\ rangeRead' = out.rangeRead
             /\ failed' = out.failed
             /\ edge' = IF edgeW = {} THEN edge
                        ELSE LET w == CHOOSE x \in edgeW : TRUE
                             IN  (w.key :> w.value) @@ edge
             /\ kv' = IF kvW = {} THEN kv
                      ELSE LET w == CHOOSE x \in kvW : TRUE
                           IN  (w.key :> w.value.body[1]) @@ kv
             /\ pre' = [edge |-> getCacheKey(k) \in DOMAIN edge,
                        kv   |-> getKVKey(k) \in DOMAIN kv,
                        cold |-> edge = <<>> /\ kv = <<>> /\ pending = {}]
    /\ pc' = "responded"
    /\ UNCHANGED <<env, bucket, pending, prev>>

\* A GET arrives (index.ts hands it to handleFileStream) and is answered.  The
\* cache writes it starts stay pending: the response does not wait for them.
RequestOf(keys, headers, faults, kvFaults) ==
    /\ pc = "idle"
    /\ \E k \in keys, r \in headers, f \in faults, kvf \in kvFaults :
         LET request == [fileKey |-> k, range |-> r]
             out == handleFileStream(request,
                                     {f} \cup (IF kvf THEN {"kv.get:throw"} ELSE {}))
         IN  /\ Cardinality(pending \cup out.writes) <= MaxPending
             /\ req' = request
             /\ resp' = out.resp
             /\ ops' = out.ops \cup {IF w.tier = "kv" THEN "kv.put"
                                     ELSE IF w.key[3] = <<>> THEN "edge.put"
                                     ELSE "chunk.put" : w \in out.writes}
             /\ rangeRead' = out.rangeRead
             /\ failed' = out.failed
             /\ pending' = pending \cup out.writes
             /\ pre' = [edge |-> getCacheKey(k) \in DOMAIN edge,
                        kv   |-> getKVKey(k) \in DOMAIN kv,
                        cold |-> edge = <<>> /\ kv = <<>> /\ pending = {}]
    /\ pc' = "responded"
    /\ UNCHANGED <<env, bucket, edge, kv, prev>>

\* requests for any key, without Range header or with one of a few
Request == RequestOf(FileKeys, WholeHeaders, Faults, BOOLEAN)

\* requests for the object under KeyA, with any of the Range headers
RangeRequest == RequestOf({KeyA}, RangedHeaders, RangeFaults, {FALSE})

\* The response has gone out; the worker is ready for the next request.
Deliver ==
    /\ pc = "responded"
    /\ pc' = "idle"
    /\ prev' = IF req.range = <<>> /\ resp.kind = "media"
               THEN <<[fileKey |-> req.fileKey, resp |-> resp, cold |-> pre.cold]>>
               ELSE <<>>
    /\ req' = NoRequest
    /\ resp' = BlankResponse
    /\ ops' = {}
    /\ rangeRead' = <<>>
    /\ failed' = {}
    /\ pre' = NoPre
    /\ UNCHANGED <<env, bucket, edge, kv, pending>>

\* A background cache write completes: the entry is stored.
BgPutOk ==
    /\ \E w \in pending :
         /\ pending' = pending \ {w}
         /\ IF w.tier = "edge"
            THEN edge' = (w.key :> w.value) @@ edge /\ UNCHANGED kv
            ELSE kv' = (w.key :> w.value.body[1]) @@ kv /\ UNCHANGED edge
    /\ UNCHANGED <<env, bucket, pc, req, resp, ops, rangeRead, failed, pre, prev>>

\* A background cache write fails: the .catch handler logs it, nothing else.
BgPutFail ==
    /\ \E w \in pending : pending' = pending \ {w}
    /\ UNCHANGED <<env, bucket, edge, kv, pc, req, resp, ops, rangeRead, failed, pre, prev>>

Next == Request \/ Deliver \/ BgPutOk \/ BgPutFail

Spec == Init /\ [][Next]_vars

\* The range path on its own: the worker is bound to its bucket and its KV
\* namespace, the object is a small one, and every request carries a Range
\* header.
InitRange == Init /\ env.bucket /\ env.KV /\ bucket[KeyA][1].size <= MaxSize

NextRange == RangeRequest \/ Deliver \/ BgPutOk \/ BgPutFail

SpecRange == InitRange /\ [][NextRange]_vars

\* Large video and audio objects: objects far larger than the chunk sizes and
\* the ceilings of their classes, beside small ones, and the Range headers
\* around the chunk sizes.
BigVideoSize == 50 * 1024 * 1024

BigAudioSize == 20 * 1024 * 1024

BucketsBig ==
    {[k \in FileKeys |-> IF k = KeyA THEN <<Object(<<ct>>, sz, "A")>> ELSE <<>>] :
        ct \in {CtVideo}, sz \in {MaxSize, BigVideoSize}}
    \cup
    {[k \in FileKeys |-> IF k = KeyA THEN <<Object(<<ct>>, sz, "A")>> ELSE <<>>] :
        ct \in {CtAudio}, sz \in {MaxSize, BigAudioSize}}

BigHeaders ==
    {<<RangeAB(0, VIDEO_CHUNK_SIZE - 1)>>,
     <<RangeAB(0, FIRST_CHUNK_MAX - 1)>>,
     <<RangeAB(0, FIRST_CHUNK_MAX)>>,
     <<RangeFrom(BigVideoSize - 2)>>,
     <<RangeFrom(BigAudioSize - 2)>>}
    \cup {<<RangeFrom(n)>> : n \in 0..MaxOff}

InitBig ==
    /\ env = [bucket |-> TRUE, KV |-> TRUE]
    /\ bucket \in BucketsBig
    /\ edge = <<>>
    /\ kv = <<>>
    /\ pending = {}
    /\ pc = "idle"
    /\ req = NoRequest
    /\ resp = BlankResponse
    /\ ops = {}
    /\ rangeRead = <<>>
    /\ failed = {}
    /\ pre = NoPre
    /\ prev = <<>>

\* range requests for the object under KeyA
BigRequest == RequestOf({KeyA}, BigHeaders, RangeFaults, {FALSE})

\* The response has gone out.  Here the previous request is kept whenever it
\* was served, with its Range header.
DeliverRanged ==
    /\ pc = "responded"
    /\ pc' = "idle"
    /\ prev' = IF resp.kind = "media"
               THEN <<[fileKey |-> req.fileKey, range |-> req.range,
                       resp |-> resp, cold |-> pre.cold]>>
               ELSE <<>>
    /\ req' = NoRequest
    /\ resp' = BlankResponse
    /\ ops' = {}
    /\ rangeRead' = <<>>
    /\ failed' = {}
    /\ pre' = NoPre
    /\ UNCHANGED <<env, bucket, edge, kv, pending>>

NextBig == BigRequest \/ DeliverRanged \/ BgPutOk \/ BgPutFail

SpecBig == InitBig /\ [][NextBig]_vars

\* ------------------------------------------------------------ properties

\* the request in hand has been answered
Responded == pc = "responded"

\* the object the request names, and its effective content type and size
ReqObject == bucket[req.fileKey][1]

ReqType == IF ReqObject.contentType # <<>> /\ ReqObject.contentType[1] # <<>>
           THEN ReqObject.contentType[1] ELSE OctetStream

ReqSize == ReqObject.size

ReqIsImage == startsWith(ReqType, ImagePrefix)

ReqIsVideoOrAudio == startsWith(ReqType, VideoPrefix) \/ startsWith(ReqType, AudioPrefix)

\* the request reached an object of the bucket: valid key, bucket bound, object there
ReachesObject ==
    /\ Responded
    /\ req.fileKey # <<>> /\ ~includes(req.fileKey, DotDot)
    /\ env.bucket
    /\ bucket[req.fileKey] # <<>>

\* the cache writes a request can start
PutOps == {"edge.put", "kv.put", "chunk.put"}

\* the response is 416 with Content-Range: bytes */total
Is416(total) ==
    /\ resp.status = 416
    /\ resp.contentRange = <<[unsatisfied |-> TRUE, start |-> NaN, end |-> NaN, total |-> total]>>

\* the response is 206 for bytes a..b of total, and what was read from the
\* bucket, if anything, is exactly that range; only a first chunk can come
\* from the cache instead
Serves(a, b, total) ==
    /\ resp.status = 206
    /\ resp.contentRange = <<[unsatisfied |-> FALSE, start |-> Num(a), end |-> Num(b), total |-> total]>>
    /\ resp.contentLength = Num(b - a + 1)
    /\ IF "bucket.getRange" \in ops
       THEN rangeRead = <<[offset |-> Num(a), length |-> Num(b - a + 1)]>>
       ELSE a = 0 /\ "chunk.match" \in ops

Max(x, y) == IF x >= y THEN x ELSE y

\* C1: a request whose file key is empty or contains ".." is answered 400 and
\* makes no call to the bucket, to KV or to the cache, whatever the caches hold
\* and whether or not the bucket is bound.
C1_BadKeyRejected ==
    (Responded /\ (req.fileKey = <<>> \/ includes(req.fileKey, DotDot)))
        => /\ resp.kind = "json" /\ resp.status = 400
           /\ ops = {}
           /\ rangeRead = <<>>

\* C1 witness: a key with ".." that names an object of the bucket is refused
\* while the cache holds an entry and the bucket is bound
C1_Witness ==
    /\ Responded /\ includes(req.fileKey, DotDot)
    /\ bucket[req.fileKey] # <<>> /\ env.bucket /\ edge # <<>>
    /\ resp.status = 400

\* C2: no request ends with an exception leaving handleFileStream: a call that
\* throws (other than the KV read, which is recovered) ends in a 500 JSON
\* response.
C2_EveryExceptionCaught ==
    Responded =>
        /\ resp.kind # "thrown"
        /\ (failed \cap {"edge.match:throw", "bucket.head:throw", "bucket.get:throw",
                         "arrayBuffer:throw", "chunk.match:throw",
                         "bucket.getRange:throw"} # {}
              => resp.kind = "json" /\ resp.status = 500)

\* C3 as claimed: for every object of a media type (image, video or audio) of
\* size S, a request with Range: bytes=A-B, 0 <= A <= B < S, is answered 206
\* with Content-Range A-B/S and Content-Length B-A+1, and the bucket is asked
\* for exactly that range unless the first-chunk cache answers.
C3_AnyMediaRangeServed ==
    \A a \in 0..MaxOff, b \in 0..MaxOff :
        (/\ ReachesObject /\ failed = {}
         /\ (ReqIsImage \/ ReqIsVideoOrAudio)
         /\ req.range = <<RangeAB(a, b)>>
         /\ a <= b /\ b < ReqSize)
            => Serves(a, b, ReqSize)

\* C3 amended: the same for every video or audio object.
C3_ValidRangeServed ==
    \A a \in 0..MaxOff, b \in 0..MaxOff :
        (/\ ReachesObject /\ failed = {}
         /\ ReqIsVideoOrAudio
         /\ req.range = <<RangeAB(a, b)>>
         /\ a <= b /\ b < ReqSize)
            => Serves(a, b, ReqSize)

\* C3 witness: bytes=1-2 of a video of 3 bytes is read from the bucket
C3_Witness ==
    /\ ReachesObject /\ failed = {} /\ ReqIsVideoOrAudio
    /\ req.range = <<RangeAB(1, 2)>> /\ ReqSize = 3
    /\ resp.status = 206 /\ "bucket.getRange" \in ops

\* 0 <= start <= end <= total - 1 for the Content-Range of a response
RangeWithin(r) ==
    /\ r.contentRange # <<>>
    /\ LET cr == r.contentRange[1]
       IN  /\ ~cr.unsatisfied
           /\ ~IsNaN(cr.start) /\ ~IsNaN(cr.end)
           /\ 0 <= cr.start[1] /\ cr.start[1] <= cr.end[1] /\ cr.end[1] <= cr.total - 1

\* C4: every 206 response and every first-chunk cache entry carries a range
\* with 0 <= start <= end <= S-1, and a request with an explicit end >= S is
\* answered 416.  (Stated for the requests bytes=A-B and for the cache
\* entries; the headers without a number are the subject of C6.)
C4_RangeWithinObject ==
    /\ \A a \in 0..MaxOff, b \in 0..MaxOff :
          (/\ ReachesObject /\ failed = {} /\ ReqIsVideoOrAudio
           /\ req.range = <<RangeAB(a, b)>>)
              => /\ resp.status = 206 => RangeWithin(resp)
                 /\ b >= ReqSize => resp.status = 416
    /\ \A k \in DOMAIN edge : k[3] # <<>> => RangeWithin(edge[k])

\* the start and end a Range header resolves to on an object of size S with
\* chunk size c, for the three forms of the header
ResolvedAB(a, b) == [start |-> a, end |-> b]

ResolvedFrom(a, S, c) == [start |-> a, end |-> IF a + c - 1 <= S - 1 THEN a + c - 1 ELSE S - 1]

ResolvedSuffix(n, S) == [start |-> Max(S - n, 0), end |-> S - 1]

Unsatisfiable(r, S) == r.start >= S \/ r.end < r.start

\* the request is answered 416 without range read, first-chunk lookup or write
Refused416 ==
    /\ Is416(ReqSize)
    /\ "bucket.getRange" \notin ops /\ rangeRead = <<>>
    /\ "chunk.match" \notin ops
    /\ ops \cap PutOps = {}

\* C5: for a video or audio object of size S, a range request whose resolved
\* start is >= S or whose end is < start is answered 416 with
\* Content-Range: bytes */S, with no range read, no first-chunk cache lookup
\* and no cache write.
C5_UnsatisfiableIs416 ==
    (ReachesObject /\ failed = {} /\ ReqIsVideoOrAudio) =>
        /\ \A a \in 0..MaxOff, b \in 0..MaxOff :
              (req.range = <<RangeAB(a, b)>> /\ Unsatisfiable(ResolvedAB(a, b), ReqSize))
                  => Refused416
        /\ \A a \in 0..MaxOff :
              (/\ req.range = <<RangeFrom(a)>>
               /\ Unsatisfiable(ResolvedFrom(a, ReqSize, chunkSizeOf(ReqType)), ReqSize))
                  => Refused416
        /\ \A n \in 0..MaxOff :
              (req.range = <<RangeSuffix(n)>> /\ Unsatisfiable(ResolvedSuffix(n, ReqSize), ReqSize))
                  => Refused416

\* C5 witness: bytes=2-1 (end < start, start inside the object) is refused
C5_Witness ==
    /\ ReachesObject /\ failed = {} /\ ReqIsVideoOrAudio
    /\ req.range = <<RangeAB(2, 1)>> /\ ReqSize = 3
    /\ resp.status = 416

\* C6: for a video or audio object of size S, a Range header that does not
\* parse (not of the bytes=N-M syntax, or bytes=- with no number at all) is
\* answered 416 with Content-Range: bytes */S and causes no range read.
C6_UnparsableIs416 ==
    (/\ ReachesObject /\ ReqIsVideoOrAudio
     /\ failed \cap {"edge.match:throw", "bucket.head:throw"} = {}
     /\ req.range \in {<<RangeDashOnly>>, <<RangeOtherUnit>>})
        => Is416(ReqSize) /\ "bucket.getRange" \notin ops

\* C7 as claimed: for a video or audio object of size S, bytes=-N is served as
\* the range [max(S-N, 0), S-1], for every N and S, N = 0 and S = 0 included.
C7_SuffixAlwaysServed ==
    \A n \in 0..MaxOff :
        (ReachesObject /\ failed = {} /\ ReqIsVideoOrAudio /\ req.range = <<RangeSuffix(n)>>)
            => Serves(Max(ReqSize - n, 0), ReqSize - 1, ReqSize)

\* C7 amended: for N >= 1 and S >= 1 the range served is [max(S-N, 0), S-1];
\* for N = 0 or S = 0 that range is empty and the answer is 416.
C7_SuffixServed ==
    \A n \in 0..MaxOff :
        (ReachesObject /\ failed = {} /\ ReqIsVideoOrAudio /\ req.range = <<RangeSuffix(n)>>)
            => IF n >= 1 /\ ReqSize >= 1
               THEN Serves(Max(ReqSize - n, 0), ReqSize - 1, ReqSize)
               ELSE Refused416

\* C7 witness: bytes=-2 on an object of 1 byte (N > S) is served as 0-0
C7_Witness ==
    /\ ReachesObject /\ failed = {} /\ ReqIsVideoOrAudio
    /\ req.range = <<RangeSuffix(2)>> /\ ReqSize = 1
    /\ resp.status = 206 /\ resp.contentLength = Num(1)

\* C8: for an object whose content type begins with none of image/, video/,
\* audio/ (or that has none), the answer is 400 with a downloadUrl, the body
\* is not read from the bucket and nothing is written to a cache.
C8_NonMediaRefused ==
    (/\ ReachesObject /\ failed = {}
     /\ ~startsWith(ReqType, ImagePrefix)
     /\ ~startsWith(ReqType, VideoPrefix)
     /\ ~startsWith(ReqType, AudioPrefix))
        => /\ resp.kind = "json" /\ resp.status = 400
           /\ resp.downloadUrl = <<"/download/", req.fileKey>>
           /\ ops \cap {"bucket.get", "bucket.getRange"} = {}
           /\ ops \cap PutOps = {}

\* C8 witness: an object of type "images" is refused
C8_Witness ==
    /\ ReachesObject /\ failed = {} /\ ReqType = CtImages
    /\ resp.status = 400 /\ resp.downloadUrl # <<>>

\* C9: two consecutive GETs of the same key without Range header, both served
\* (from the bucket, from KV or from the cache), have the same body and the
\* same content type, however the background writes of the first fall.
C9_SameBodyTwice ==
    (/\ Responded /\ req.range = <<>> /\ resp.kind = "media"
     /\ prev # <<>> /\ prev[1].fileKey = req.fileKey)
        => /\ resp.body = prev[1].resp.body
           /\ resp.contentType = prev[1].resp.contentType
           /\ resp.xcache \in {"MISS", "HIT-KV", "HIT-WORKERS"}

\* C9 witness: the first GET was a MISS and the second is answered from KV
C9_Witness ==
    /\ Responded /\ req.range = <<>> /\ resp.kind = "media"
    /\ prev # <<>> /\ prev[1].fileKey = req.fileKey
    /\ prev[1].resp.xcache = "MISS" /\ resp.xcache = "HIT-KV"
    /\ resp.body # <<>>

\* the request is a GET without Range header of an image no larger than the
\* ceiling of its class, and no call failed
SmallImageGet ==
    /\ ReachesObject /\ failed = {} /\ req.range = <<>>
    /\ ReqIsImage /\ ReqSize <= CACHE_CONFIGS.image.maxKVSize

WholeBody == <<Bytes(ReqObject.data, Num(0), Num(ReqSize))>>

\* the request follows a GET of the same key that found both caches empty
SecondGet == prev # <<>> /\ prev[1].fileKey = req.fileKey /\ prev[1].cold

\* C10 as claimed: with both caches empty, the first GET of a small image is
\* 200 MISS with the full body and the second GET of the key is HIT-WORKERS
\* with the same body.
C10_SecondGetHitsCache ==
    SmallImageGet =>
        /\ pre.cold => (resp.status = 200 /\ resp.xcache = "MISS" /\ resp.body = WholeBody)
        /\ SecondGet => (resp.xcache = "HIT-WORKERS" /\ resp.body = prev[1].resp.body)

\* C10 amended: the second GET is HIT-WORKERS with the same body when the
\* background cache write of the first has completed; while it is pending, or
\* when it failed, the second GET is HIT-KV or MISS, with the same body.
C10_SecondGetAfterWrite ==
    SmallImageGet =>
        /\ pre.cold => (resp.status = 200 /\ resp.xcache = "MISS" /\ resp.body = WholeBody)
        /\ SecondGet =>
              /\ resp.status = 200 /\ resp.body = prev[1].resp.body
              /\ resp.body = WholeBody
              /\ IF pre.edge THEN resp.xcache = "HIT-WORKERS"
                 ELSE resp.xcache \in {"HIT-KV", "MISS"}

\* C10 witness: the second GET of a small image, after the cache write of the
\* first has completed, is answered from the cache
C10_Witness ==
    /\ SmallImageGet /\ SecondGet /\ pre.edge
    /\ prev[1].resp.xcache = "MISS"
    /\ resp.xcache = "HIT-WORKERS" /\ ReqSize > 0

\* ------------------------------------------------- C11: the repeated chunk

ReqIsVideo == startsWith(ReqType, VideoPrefix)

ReqIsAudio == startsWith(ReqType, AudioPrefix)

\* the request repeats the Range request before it, which was answered 206
\* for a range starting at byte 0, and nothing fails while it is handled
RepeatsFirstChunk ==
    /\ Responded /\ failed = {}
    /\ req.range # <<>>
    /\ prev # <<>> /\ prev[1].fileKey = req.fileKey /\ prev[1].range = req.range
    /\ prev[1].resp.status = 206
    /\ prev[1].resp.contentRange[1].start = Num(0)

\* C11 as claimed: for a video, once a range request starting at byte 0 has
\* been answered 206, the identical request repeated is answered from the
\* first-chunk cache, without a range read of the bucket.
C11_RepeatFromCache ==
    (RepeatsFirstChunk /\ ReqIsVideo) =>
        (resp.status = 206 /\ "bucket.getRange" \notin ops)

\* C11 as the code has it: the repeated request gets the same response as the
\* first; it is answered without a range read of the bucket exactly when the
\* first chunk is in the edge cache at that moment, and a chunk longer than
\* 512 KiB (the 2 MiB of bytes=0-2097151 included) never is.
C11_RepeatFromStoredChunk ==
    [][(pc = "idle" /\ pc' = "responded" /\ RepeatsFirstChunk' /\ ReqIsVideo')
         => LET first == prev[1].resp
                key   == getRangeCacheKey(req'.fileKey, first.contentRange[1].end)
            IN  /\ resp' = first
                /\ ("bucket.getRange" \notin ops') <=> (key \in DOMAIN edge)
                /\ key \in DOMAIN edge => JsLE(first.contentLength, Num(FIRST_CHUNK_MAX))]_vars

\* a 512 KiB first chunk of the 50 MiB video, repeated, comes from the cache
C11_Witness ==
    /\ RepeatsFirstChunk /\ ReqIsVideo /\ ReqSize = BigVideoSize
    /\ resp.status = 206
    /\ resp.contentLength = Num(FIRST_CHUNK_MAX)
    /\ "chunk.match" \in ops /\ "bucket.getRange" \notin ops

\* ------------------------------------------- C12: the key-value ceiling

\* a GET without Range of a media object that the edge cache did not answer
\* and whose metadata was read
WholeGetPastEdge ==
    /\ ReachesObject /\ req.range = <<>>
    /\ ~notMedia(ReqType)
    /\ "bucket.head" \in ops /\ "bucket.head:throw" \notin failed

\* maxKVSize of the class of the requested object
ReqCeiling ==
    IF ReqIsImage THEN CACHE_CONFIGS.image.maxKVSize
    ELSE IF ReqIsVideo THEN CACHE_CONFIGS.video.maxKVSize
    ELSE CACHE_CONFIGS.audio.maxKVSize

\* the key-value tier was read, and written if the object was served as a miss
KVUsed ==
    /\ "kv.get" \in ops
    /\ (resp.status = 200 /\ resp.xcache = "MISS") => "kv.put" \in ops

KVUntouched == "kv.get" \notin ops /\ "kv.put" \notin ops

\* C12 as claimed: in every media class an object of exactly maxKVSize bytes
\* has the key-value tier consulted and populated after a miss, and an object
\* of maxKVSize+1 bytes has it neither consulted nor written.
C12_CeilingEveryClass ==
    (WholeGetPastEdge /\ env.KV) =>
        /\ ReqSize = ReqCeiling => KVUsed
        /\ ReqSize = ReqCeiling + 1 => KVUntouched

\* C12 as the code has it: with the key-value namespace bound, an image or an
\* audio object of at most maxKVSize bytes has the tier consulted and populated
\* after a miss; one of more than maxKVSize bytes, and any video, has it
\* neither consulted nor written.
C12_CeilingImageAudio ==
    WholeGetPastEdge =>
        /\ (env.KV /\ ~ReqIsVideo /\ ReqSize <= ReqCeiling) => KVUsed
        /\ (ReqSize > ReqCeiling \/ ReqIsVideo \/ ~env.KV) => KVUntouched

\* an audio object of exactly 10 MiB, missed in both caches, is put into KV
C12_Witness ==
    /\ WholeGetPastEdge /\ env.KV /\ ReqIsAudio
    /\ ReqSize = 10 * 1024 * 1024
    /\ resp.status = 200 /\ resp.xcache = "MISS"
    /\ "kv.get" \in ops /\ "kv.put" \in ops

\* -------------------------------------------- C13: the background writes

\* the cache writes the request started are under way, none of them done
WritesUnderWay ==
    /\ "edge.put" \in ops => \E w \in pending : w.tier = "edge" /\ w.key[3] = <<>>
    /\ "chunk.put" \in ops => \E w \in pending : w.tier = "edge" /\ w.key[3] # <<>>
    /\ "kv.put" \in ops => \E w \in pending : w.tier = "kv"

\* C13: the response is returned with its cache writes started and not waited
\* for (the caches are as they were before the request), and whether a write
\* then succeeds, fails or stays pending, the response stays what it was.
C13_ResponseIndependentOfWrites ==
    [][/\ (pc = "idle" /\ pc' = "responded")
            => (edge' = edge /\ kv' = kv /\ WritesUnderWay')
       /\ (pc = "responded" /\ pc' = "responded")
            => (resp' = resp /\ req' = req /\ ops' = ops)]_vars

\* a 200 response whose edge write has failed and whose KV write has succeeded
\* while it was being returned
C13_Witness ==
    /\ Responded /\ resp.status = 200 /\ resp.body = WholeBody
    /\ "edge.put" \in ops /\ "kv.put" \in ops
    /\ pending = {}
    /\ getCacheKey(req.fileKey) \notin DOMAIN edge
    /\ getKVKey(req.fileKey) \in DOMAIN kv

\* -------------------------------------------- C14: edge-cache failures

\* C14 as claimed: when a lookup in the edge cache fails, of the whole-object
\* entry or of the first-chunk entry, the request goes on as after a miss and
\* the client gets no error caused by the edge cache.
C14_EdgeFailureIsMiss ==
    (Responded /\ failed \cap {"edge.match:throw", "chunk.match:throw"} # {}) =>
        (resp.kind # "thrown" /\ resp.status # 500)

\* -------------------------------------------- C15: key-value read failures

\* the KV read of the request failed
KVReadFailed == Responded /\ "kv.get:throw" \in failed

\* C15: when the KV read of a whole-object GET fails, the failure is swallowed
\* and the request goes on as after a KV miss: the object is read from the
\* bucket and, nothing else failing, served 200 with the whole body and
\* X-Cache MISS and put into both caches; KV is never the source of the answer.
C15_KVReadFailureIsMiss ==
    KVReadFailed =>
        /\ "kv.get" \in ops /\ "bucket.get" \in ops
        /\ resp.kind # "thrown" /\ resp.xcache # "HIT-KV"
        /\ failed = {"kv.get:throw"} =>
              /\ resp.status = 200 /\ resp.xcache = "MISS" /\ resp.body = WholeBody
              /\ ops \cap PutOps = {"edge.put", "kv.put"}
        /\ "bucket.get:null" \in failed => resp.status = 404

\* the KV read fails while KV holds the object: served from the bucket as MISS
C15_Witness ==
    /\ KVReadFailed /\ failed = {"kv.get:throw"}
    /\ pre.kv
    /\ resp.status = 200 /\ resp.xcache = "MISS" /\ resp.body = WholeBody

\* ------------------------------------- C16: Range and the whole-object entry

\* the request carries a Range header (with a value)
HasRange == req.range # <<>> /\ req.range[1] # <<>>

\* C16 as claimed: a request with a Range header skips the whole-object edge
\* cache: no lookup of the whole-object entry is made for it and it is never
\* answered with that entry, whatever the media class.
C16_RangeSkipsEdgeCache ==
    (Responded /\ HasRange) =>
        ("edge.match" \notin ops /\ resp.xcache # "HIT-WORKERS")

\* ------------------------------------------- C17: objects above the ceiling

\* a GET without Range of a media object larger than the ceiling of its class
LargeGet ==
    /\ ReachesObject /\ req.range = <<>>
    /\ ~notMedia(ReqType)
    /\ ReqSize > ReqCeiling

\* no cache holds, and no write under way will store, the object under key k
Uncached(k) ==
    /\ getCacheKey(k) \notin DOMAIN edge
    /\ getKVKey(k) \notin DOMAIN kv
    /\ \A w \in pending : w.key # getCacheKey(k) /\ w.key # getKVKey(k)

\* C17: a whole-object GET of an object larger than the ceiling of its class
\* never comes from a cache and starts no cache write; nothing failing, it is
\* 200 with X-Cache MISS and the body read from the bucket; and neither cache
\* ever holds the object, so every later GET reads the bucket again.
C17_LargeObjectStreamed ==
    LargeGet =>
        /\ resp.xcache \notin {"HIT-WORKERS", "HIT-KV"}
        /\ ops \cap PutOps = {} /\ KVUntouched
        /\ Uncached(req.fileKey)
        /\ failed = {} =>
              /\ resp.status = 200 /\ resp.xcache = "MISS" /\ resp.body = WholeBody
              /\ "bucket.get" \in ops

\* the second GET in a row of a non-empty video reads the bucket again
C17_Witness ==
    /\ LargeGet /\ failed = {} /\ ReqIsVideo /\ ReqSize > 0
    /\ prev # <<>> /\ prev[1].fileKey = req.fileKey /\ prev[1].resp.xcache = "MISS"
    /\ resp.status = 200 /\ resp.xcache = "MISS" /\ "bucket.get" \in ops

\* ------------------------------------------------------ C18: the KV hit

\* a GET without Range of a valid key with the bucket bound, nothing failing
PlainGet ==
    /\ Responded /\ failed = {} /\ req.range = <<>>
    /\ req.fileKey # <<>> /\ ~includes(req.fileKey, DotDot)
    /\ env.bucket

\* C18: a KV hit is 200 HIT-KV with the whole body, without a read of the
\* object from the bucket, and starts exactly one cache write, of the edge
\* entry of the key; a GET that finds the edge entry is HIT-WORKERS with the
\* whole body, the body of the HIT-KV response before it.
C18_KVHitReseedsEdge ==
    /\ (Responded /\ resp.xcache = "HIT-KV") =>
          /\ resp.status = 200 /\ resp.body = WholeBody
          /\ "bucket.get" \notin ops
          /\ ops \cap PutOps = {"edge.put"}
    /\ (PlainGet /\ pre.edge) =>
          /\ resp.status = 200 /\ resp.xcache = "HIT-WORKERS" /\ resp.body = WholeBody
          /\ ops = {"edge.match"}
          /\ (prev # <<>> /\ prev[1].fileKey = req.fileKey) => resp.body = prev[1].resp.body
    /\ \A w \in pending :
          (w.tier = "edge" /\ w.key[3] = <<>> /\ w.value.xcache = "HIT-KV")
              => w.value.body = <<Bytes(bucket[w.key[2]][1].data, Num(0),
                                        Num(bucket[w.key[2]][1].size))>>

\* a GET answered HIT-WORKERS right after a GET of the key answered HIT-KV
C18_Witness ==
    /\ PlainGet /\ pre.edge
    /\ prev # <<>> /\ prev[1].fileKey = req.fileKey /\ prev[1].resp.xcache = "HIT-KV"
    /\ resp.xcache = "HIT-WORKERS" /\ resp.body = prev[1].resp.body

\* ------------------------------------------- C19: the first-chunk cache

IsChunkKey(key) == key[1] = "https://cache.local/range/"

\* a first-chunk entry: a 206 response for bytes 0..end, end the one of its
\* key, of at most 512 KiB
FirstChunkEntry(key, value) ==
    /\ value.status = 206
    /\ value.contentRange[1].start = Num(0)
    /\ value.contentRange[1].end = key[3]
    /\ value.contentLength = JsAdd(key[3], Num(1))
    /\ JsLE(value.contentLength, Num(512 * 1024))

\* C19: the first-chunk cache, and the writes to it that are under way, hold
\* only 206 responses for ranges that start at byte 0 and are at most 512 KiB
\* long; a request starts such a write only with a response of that kind, so
\* never with a range starting after byte 0, a longer first chunk, a 416 or a
\* 500.
C19_OnlySmallFirstChunks ==
    /\ \A k \in DOMAIN edge : IsChunkKey(k) => FirstChunkEntry(k, edge[k])
    /\ \A w \in pending : IsChunkKey(w.key) => (w.tier = "edge" /\ FirstChunkEntry(w.key, w.value))
    /\ (Responded /\ "chunk.put" \in ops) =>
          /\ resp.status = 206
          /\ resp.contentRange[1].start = Num(0)
          /\ JsLE(resp.contentLength, Num(512 * 1024))
          /\ "bucket.getRange" \in ops

\* a first chunk of 512 KiB + 1 bytes is served with a chunk of 512 KiB in the
\* cache, and is not written to it
C19_Witness ==
    /\ Responded /\ resp.status = 206
    /\ resp.contentRange[1].start = Num(0)
    /\ resp.contentLength = Num(512 * 1024 + 1)
    /\ "chunk.put" \notin ops
    /\ getRangeCacheKey(req.fileKey, Num(512 * 1024 - 1)) \in DOMAIN edge
    /\ \A k \in DOMAIN edge : k[3] # Num(512 * 1024)

\* ------------------------------------------- C20: the open-ended range

Min(x, y) == IF x <= y THEN x ELSE y

\* the offsets N of the requests 'bytes=N-' made
FromOffsets == (0..MaxOff) \cup {BigVideoSize - 2, BigAudioSize - 2}

\* the chunk size of the class of the requested object
ReqChunk == IF ReqIsVideo THEN 2 * 1024 * 1024 ELSE 512 * 1024

\* C20: 'bytes=N-' with 0 <= N < S on a video or audio object of size S,
\* nothing failing, is served as bytes N..min(N + chunk - 1, S - 1) of S, with
\* chunk 2 MiB for video and 512 KiB for audio: at most chunk bytes, none past
\* the last byte of the object.
C20_OpenEndedRange ==
    \A n \in FromOffsets :
        (/\ ReachesObject /\ failed = {}
         /\ ReqIsVideo \/ ReqIsAudio
         /\ req.range = <<RangeFrom(n)>>
         /\ n < ReqSize)
        => /\ Serves(n, Min(n + ReqChunk - 1, ReqSize - 1), ReqSize)
           /\ JsLE(resp.contentLength, Num(ReqChunk))
           /\ JsLT(resp.contentRange[1].end, Num(ReqSize))

\* 'bytes=1-' on the 50 MiB video: 2 MiB served, read from the bucket
C20_Witness ==
    /\ ReachesObject /\ failed = {} /\ ReqIsVideo /\ ReqSize = BigVideoSize
    /\ req.range = <<RangeFrom(1)>>
    /\ Serves(1, 2 * 1024 * 1024, BigVideoSize)
    /\ "bucket.getRange" \in ops

====
